---- MODULE Spec2Model ----
(***************************************************************************)
(* State-machine model of the decision-process engines of RL_Matching:     *)
(*   src/environment.py                  bin packing (strict, incremental  *)
(*                                       waste, near action, action mask,  *)
(*                                       continuous action) and the        *)
(*                                       matching engine of that file      *)
(*   src/online_matching_environment.py  online matching (permutation,     *)
(*                                       stochastic, upper triangle) and   *)
(*                                       the oracle table with its cache   *)
(* One engine object lives in a behaviour.  Spec and SpecAny run a         *)
(* bin-packing engine (SpecAny also submits integers outside the action    *)
(* space); SpecMatch runs a matching engine; SpecEngines runs either;      *)
(* SpecOracle builds and reloads the oracle table.  Draws of the random    *)
(* stream are nondeterministic choices, except in SpecPair, where two      *)
(* objects of the strict engine read the same stream of words.  The        *)
(* attributes total_reward, step_count, episode_count and realsize are     *)
(* write-only in the source and are left out.                              *)
(***************************************************************************)
EXTENDS Integers, Sequences, FiniteSets, TLC

VARIABLES
    variant,                    \* the class of the engine object
    time_remaining,
    item_size,
    num_full_bags,
    num_bins_levels,            \* [0..bag_capacity-1 -> Int]
    waste,
    bin_type_distribution_map,  \* level -> insertion-ordered <<[key, n]>>
    action_mask,                \* <<>> when the class keeps no mask
    opened,                     \* history: bins opened since reset
    ret,                        \* the last call and what it returned
    graph,                      \* matching: offline, online, time_horizon, edges
    online_type,
    matched_offline_list,
    rl_matching,
    online_type_list,
    online_vertex_arrival_order,
    graph_file,                 \* the edge lines of the file the graph was read from
    env_config,                 \* the options the constructor was called with
    submitted,                  \* continuous engine: the real number last submitted
    cache_file,                 \* edge_with_prob.txt: exists, lines
    type_prob,                  \* oracle table: online vertex -> <<[key, p]>>
    persisted,                  \* history: the table in memory when the file was written
    oracle,                     \* position of the oracle builder and what its run called
    stream,                     \* two runs: the words one run has drawn and the other not yet
    stream_pos,                 \* two runs: how many words of stream each run has drawn
    twin                        \* two runs: the state of the second engine object

binVars == <<time_remaining, item_size, num_full_bags, num_bins_levels, waste,
             bin_type_distribution_map, opened>>
matchVars == <<graph, online_type, matched_offline_list, rl_matching,
               online_type_list, online_vertex_arrival_order, graph_file,
               env_config>>
oracleVars == <<cache_file, type_prob, persisted, oracle>>
pairVars == <<stream, stream_pos, twin>>
vars == <<variant, binVars, action_mask, ret, matchVars, submitted, oracleVars, pairVars>>

(***************************************************************************)
(* Configuration and program constants                                     *)
(***************************************************************************)
BIG_NEG_REWARD == -100

bag_capacity == 5

time_horizon == 5

item_sizes == <<1, 2>>

\* item_probabilities 0.8 / 0.2 as integer weights; a zero weight is never drawn
item_probabilities == <<4, 1>>

\* the largest and smallest integer a caller submits under SpecAny
MaxAction == bag_capacity + 1

MinAction == 0 - (bag_capacity + 1)

InRangeActions == 0..(bag_capacity - 1)

AnyActions == MinAction..MaxAction

BinVariants == {"strict", "incremental", "near", "mask"}

\* with BinPackingContinuousActionEnv, whose step takes a real number
BinEngines == BinVariants \cup {"continuous"}

\* the reals a caller submits to the continuous engine are num / real_den
real_den == 6

SubmittedReals == {[num |-> n, den |-> real_den] : n \in (0 - 2)..(real_den + 2)}

(***************************************************************************)
(* Python list indexing: a negative index counts from the end, an index    *)
(* outside -n..n-1 raises IndexError.                                      *)
(***************************************************************************)
PyIndexOK(a, n) == (0 - n) <= a /\ a < n

PyIndex(a, n) == IF a < 0 THEN a + n ELSE a

(***************************************************************************)
(* Composition keys.  A key "1 1 2" is the sequence of its parts; parts    *)
(* are compared as decimal strings, as list.sort() of str does.            *)
(***************************************************************************)
RECURSIVE Digits(_)
Digits(n) == IF n < 10 THEN <<n>> ELSE Append(Digits(n \div 10), n % 10)

RECURSIVE SeqLexLeq(_, _)
SeqLexLeq(s, t) ==
    IF s = <<>> THEN TRUE
    ELSE IF t = <<>> THEN FALSE
    ELSE IF Head(s) < Head(t) THEN TRUE
    ELSE IF Head(s) > Head(t) THEN FALSE
    ELSE SeqLexLeq(Tail(s), Tail(t))

StrLeq(a, b) == SeqLexLeq(Digits(a), Digits(b))

RECURSIVE InsertPart(_, _)
InsertPart(sorted, p) ==
    IF sorted = <<>> THEN <<p>>
    ELSE IF StrLeq(Head(sorted), p) THEN <<Head(sorted)>> \o InsertPart(Tail(sorted), p)
    ELSE <<p>> \o sorted

RECURSIVE SortParts(_)
SortParts(parts) ==
    IF parts = <<>> THEN <<>>
    ELSE InsertPart(SortParts(SubSeq(parts, 1, Len(parts) - 1)), parts[Len(parts)])

\* mutant: the new size is appended and the parts are left in that order
UpdateKeyAppended(key, item) == Append(key, item)

UpdateKeyForBinTypeDistributionMap(key, item) == SortParts(Append(key, item))

(***************************************************************************)
(* The nested dict bin_type_distribution_map                               *)
(***************************************************************************)
KeyIndex(entries, key) ==
    IF \E i \in 1..Len(entries) : entries[i].key = key
    THEN CHOOSE i \in 1..Len(entries) : entries[i].key = key
    ELSE 0

RemoveAt(entries, k) ==
    SubSeq(entries, 1, k - 1) \o SubSeq(entries, k + 1, Len(entries))

\* the three-way "not in map / key not in level / else += 1" of lines 290-295, 307-312
AddBinType(map, level, key) ==
    IF level \notin DOMAIN map
    THEN [l \in (DOMAIN map) \cup {level} |->
             IF l = level THEN <<[key |-> key, n |-> 1]>> ELSE map[l]]
    ELSE IF KeyIndex(map[level], key) = 0
    THEN [map EXCEPT ![level] = Append(@, [key |-> key, n |-> 1])]
    ELSE [map EXCEPT ![level][KeyIndex(map[level], key)].n = @ + 1]

\* mutant: the source entry is left as it was
TakeBinTypeKept(map, level, k) == map

\* the source entry after the chosen key loses one bin (lines 301-304)
TakeBinType(map, level, k) ==
    IF map[level][k].n = 1
    THEN [map EXCEPT ![level] = RemoveAt(@, k)]
    ELSE [map EXCEPT ![level][k].n = @ - 1]

\* k is the index np.random.choice picks among the keys of the target level
UpdateBinTypeDistributionMap(map, item, target_bin_util, k) ==
    IF target_bin_util < 0 \/ target_bin_util + item > bag_capacity THEN map
    ELSE IF target_bin_util > 0 /\ target_bin_util \notin DOMAIN map THEN map
    ELSE IF target_bin_util > 0 /\ Len(map[target_bin_util]) = 0 THEN map
    ELSE IF target_bin_util = 0 THEN AddBinType(map, item, <<item>>)
    ELSE IF map[target_bin_util][k].n <= 0 THEN map
    ELSE AddBinType(TakeBinType(map, target_bin_util, k),
                    target_bin_util + item,
                    UpdateKeyForBinTypeDistributionMap(map[target_bin_util][k].key, item))

\* the indexes the draw of line 297 can return (1 when no draw is made)
KeyChoices(map, target_bin_util) ==
    IF target_bin_util > 0 /\ target_bin_util \in DOMAIN map
       /\ Len(map[target_bin_util]) > 0
    THEN 1..Len(map[target_bin_util])
    ELSE {1}

\* __get_item: an index drawn with item_probabilities
ItemDraws == {item_sizes[i] : i \in {j \in 1..Len(item_sizes) : item_probabilities[j] > 0}}

(***************************************************************************)
(* Private names.  Inside a class body self.__name is compiled to          *)
(* self._<that class>__name, so a call resolves only when the calling      *)
(* class is the class that defines the method.                             *)
(***************************************************************************)
PrivateResolves(callingClass, definingClass) == callingClass = definingClass

(***************************************************************************)
(* Bin packing: the engine state as a record, and the step functions       *)
(***************************************************************************)
Cur == [levels |-> num_bins_levels, full |-> num_full_bags, waste |-> waste,
        map |-> bin_type_distribution_map, time |-> time_remaining,
        item |-> item_size, opened |-> opened,
        reward |-> 0, done |-> FALSE, error |-> FALSE]

\* mutant: the item is not subtracted
NewBagWasteFull(item) == bag_capacity

NewBagWaste(item) == bag_capacity - item

\* mutant: the item is counted as waste
InsertWastePositive(item) == item

InsertWaste(item) == 0 - item

PenaltyReward(w) == BIG_NEG_REWARD - w

\* the if/elif chain of BinPackingGymEnvironment.step (lines 225-244); the
\* subscript of line 239 raises IndexError below -bag_capacity
StrictBranch(levels, item, a) ==
    IF a >= bag_capacity THEN "raise"
    ELSE IF a > bag_capacity - item THEN "overflow"
    ELSE IF a = 0 THEN "new_bag"
    ELSE IF ~PyIndexOK(a, bag_capacity) THEN "index_error"
    ELSE IF levels[PyIndex(a, bag_capacity)] = 0 THEN "no_bin"
    ELSE "insert"

\* lines 245-248: the bin leaves tracking when full, else moves up
RaiseLevel(levels, full, item, a) ==
    IF a + item = bag_capacity
    THEN [levels |-> levels, full |-> full + 1]
    ELSE [levels |-> [levels EXCEPT ![PyIndex(a + item, bag_capacity)] = @ + 1],
          full |-> full]

\* mutant: the source level is not decremented
LowerLevelKept(levels, a) == levels

\* line 256 / 352 / 405
LowerLevel(levels, a) == [levels EXCEPT ![PyIndex(a, bag_capacity)] = @ - 1]

\* lines 258-265: the clock, the horizon test and the next item
FinishStep(s, nxt) ==
    [s EXCEPT !.time = @ - 1, !.done = s.done \/ (s.time - 1 = 0), !.item = nxt]

\* lines 232-238
OpenNewBag(s) ==
    [s EXCEPT !.levels = [@ EXCEPT ![s.item] = @ + 1],
              !.waste = NewBagWaste(s.item),
              !.reward = (0 - 1) * NewBagWaste(s.item),
              !.map = UpdateBinTypeDistributionMap(s.map, s.item, 0, 1),
              !.opened = @ + 1]

\* lines 245-256
InsertExisting(s, a, k) ==
    LET up == RaiseLevel(s.levels, s.full, s.item, a)
    IN [s EXCEPT !.levels = LowerLevel(up.levels, a),
                 !.full = up.full,
                 !.waste = InsertWaste(s.item),
                 !.reward = (0 - 1) * InsertWaste(s.item),
                 !.map = UpdateBinTypeDistributionMap(s.map, s.item, a, k)]

\* mutant: the penalty does not end the episode
StrictPenaltyContinue(s) == [s EXCEPT !.reward = PenaltyReward(s.waste)]

\* lines 228-231 and 239-243 of the strict engine
StrictPenalty(s) == [s EXCEPT !.reward = PenaltyReward(s.waste), !.done = TRUE]

\* BinPackingGymEnvironment.step
StrictStep(s, a, k, nxt) ==
    LET b == StrictBranch(s.levels, s.item, a)
    IN CASE b \in {"raise", "index_error"} -> [s EXCEPT !.error = TRUE]
         [] b \in {"overflow", "no_bin"} -> FinishStep(StrictPenalty(s), nxt)
         [] b = "new_bag" -> FinishStep(OpenNewBag(s), nxt)
         [] b = "insert" -> FinishStep(InsertExisting(s, a, k), nxt)

\* BinPackingIncrementalWasteGymEnvironment.step.  Its calls
\* self.__update_bin_type_distribution_map (lines 341, 351) and
\* self.__get_item (line 365) name methods defined by BinPackingGymEnvironment;
\* where the name does not resolve the call raises AttributeError, after the
\* assignments made before it.
IncrementalStep(s, a, k, nxt) ==
    LET b == StrictBranch(s.levels, s.item, a)
        ok == PrivateResolves("BinPackingIncrementalWasteGymEnvironment",
                              "BinPackingGymEnvironment")
        up == RaiseLevel(s.levels, s.full, s.item, a)
    IN CASE b \in {"raise", "index_error"} -> [s EXCEPT !.error = TRUE]
         [] b \in {"overflow", "no_bin"} ->
              IF ok THEN FinishStep([s EXCEPT !.reward = PenaltyReward(s.waste)], nxt)
              ELSE [s EXCEPT !.time = @ - 1, !.error = TRUE]
         [] b = "new_bag" ->
              IF ok THEN FinishStep(OpenNewBag(s), nxt)
              ELSE [s EXCEPT !.levels = [@ EXCEPT ![s.item] = @ + 1],
                             !.waste = NewBagWaste(s.item),
                             !.opened = @ + 1,
                             !.error = TRUE]
         [] b = "insert" ->
              IF ok THEN FinishStep(InsertExisting(s, a, k), nxt)
              ELSE [s EXCEPT !.levels = up.levels, !.full = up.full, !.error = TRUE]

\* BinPackingNearActionGymEnvironment.__is_action_valid
IsActionValid(levels, item, a) ==
    IF a >= bag_capacity THEN "raise"
    ELSE IF a > bag_capacity - item THEN "invalid"
    ELSE IF a = 0 THEN "valid"
    ELSE IF ~PyIndexOK(a, bag_capacity) THEN "index_error"
    ELSE IF levels[PyIndex(a, bag_capacity)] = 0 THEN "invalid"
    ELSE "valid"

\* the levels collected by the loops of lines 417-420 and 499-502
FittingLevels(levels, item) ==
    {x \in 1..(bag_capacity - 1) : levels[x] > 0 /\ x <= bag_capacity - item}

Abs(x) == IF x < 0 THEN 0 - x ELSE x

\* mutant: of two nearest levels the larger one is returned
GetNearestValidActionLarger(levels, item, a) ==
    LET valid == FittingLevels(levels, item)
    IN IF valid # {}
       THEN CHOOSE x \in valid :
                \A y \in valid : Abs(x - a) < Abs(y - a)
                                 \/ (Abs(x - a) = Abs(y - a) /\ x >= y)
       ELSE 0

\* min(valid_actions, key=|x - action|) returns the first minimum of the
\* ascending list
GetNearestValidAction(levels, item, a) ==
    LET valid == FittingLevels(levels, item)
    IN IF valid # {}
       THEN CHOOSE x \in valid :
                \A y \in valid : Abs(x - a) < Abs(y - a)
                                 \/ (Abs(x - a) = Abs(y - a) /\ x <= y)
       ELSE 0

\* the action __insert_item receives (lines 376-378)
ResolvedAction(levels, item, a) ==
    IF IsActionValid(levels, item, a) = "invalid"
    THEN GetNearestValidAction(levels, item, a)
    ELSE a

\* BinPackingNearActionGymEnvironment.__insert_item
InsertItem(s, action, k) ==
    IF action = 0 THEN OpenNewBag(s) ELSE InsertExisting(s, action, k)

\* BinPackingNearActionGymEnvironment.step
NearStep(s, a, k, nxt) ==
    IF IsActionValid(s.levels, s.item, a) \in {"raise", "index_error"}
    THEN [s EXCEPT !.error = TRUE]
    ELSE FinishStep(InsertItem(s, ResolvedAction(s.levels, s.item, a), k), nxt)

\* mutant: every level that holds a bin is legal, fitting or not
GetValidActionsNoFit(levels, item) ==
    {x \in 1..(bag_capacity - 1) : levels[x] > 0} \cup {0}

\* BinPackingActionMaskGymEnvironment.__get_valid_actions
GetValidActions(levels, item) == FittingLevels(levels, item) \cup {0}

\* [1 if x in valid_actions else 0 for x in range(self.action_space.n)]
BinActionMask(levels, item) ==
    [x \in 0..(bag_capacity - 1) |->
        IF x \in GetValidActions(levels, item) THEN 1 ELSE 0]

\* the level whose keys line 297 draws from
MapTarget(v, s, a) ==
    IF v \in {"near", "mask"} /\ IsActionValid(s.levels, s.item, a) \in {"valid", "invalid"}
    THEN ResolvedAction(s.levels, s.item, a)
    ELSE a

\* mutant: only the upper end is clipped
ClipAbove(x, lo, hi) ==
    IF x.num > hi * x.den THEN [num |-> hi * x.den, den |-> x.den] ELSE x

\* np.clip(x, lo, hi) of a real x = num / den
Clip(x, lo, hi) ==
    IF x.num < lo * x.den THEN [num |-> lo * x.den, den |-> x.den]
    ELSE IF x.num > hi * x.den THEN [num |-> hi * x.den, den |-> x.den]
    ELSE x

\* x * k for an integer k
Scale(x, k) == [num |-> x.num * k, den |-> x.den]

\* int(x): the fraction is dropped, toward zero
PyInt(x) ==
    IF x.num >= 0 THEN x.num \div x.den ELSE 0 - ((0 - x.num) \div x.den)

\* lines 455-457 of BinPackingContinuousActionEnv.step
ContinuousAction(x) == PyInt(Scale(Clip(x, 0, 1), bag_capacity - 1))

\* BinPackingContinuousActionEnv.step
ContinuousStep(s, x, k, nxt) == NearStep(s, ContinuousAction(x), k, nxt)

StepResult(v, s, a, k, nxt) ==
    CASE v = "strict" -> StrictStep(s, a, k, nxt)
      [] v = "incremental" -> IncrementalStep(s, a, k, nxt)
      [] v \in {"near", "mask"} -> NearStep(s, a, k, nxt)

(***************************************************************************)
(* Bin packing: the calls                                                  *)
(***************************************************************************)
NoGraph == [offline |-> 0, online |-> 0, time_horizon |-> 0, edges |-> <<>>]

\* env_config of a matching engine: the options of interest; arrival_rate is
\* <<>> when the option is not given
NoConfig == [time_horizon |-> 0, arrival_rate |-> <<>>]

MatchIdle ==
    /\ graph = NoGraph
    /\ online_type = 0
    /\ matched_offline_list = <<>>
    /\ rl_matching = <<>>
    /\ online_type_list = <<>>
    /\ online_vertex_arrival_order = <<>>
    /\ graph_file = <<>>
    /\ env_config = NoConfig

\* a single engine object is run
NoTwin == [levels |-> <<>>, full |-> 0, waste |-> 0, map |-> <<>>, time |-> 0,
           item |-> 0, opened |-> 0, reward |-> 0, done |-> FALSE, error |-> FALSE]

PairIdle ==
    /\ stream = <<>>
    /\ stream_pos = [a |-> 0, b |-> 0]
    /\ twin = NoTwin

\* a real number num / den, den > 0
Zero == [num |-> 0, den |-> 1]

\* no oracle is built by the engine
OracleIdle ==
    /\ cache_file = [exists |-> FALSE, lines |-> <<>>]
    /\ type_prob = <<>>
    /\ persisted = <<>>
    /\ oracle = [pc |-> "idle", count |-> 0, sampled |-> 0, solved |-> 0,
                 wrote |-> FALSE, hit |-> FALSE]

\* after __init__: the episode attributes are set by the first reset
Init ==
    /\ variant \in BinEngines
    /\ time_remaining = 0
    /\ item_size = 0
    /\ num_full_bags = 0
    /\ num_bins_levels = [l \in 0..(bag_capacity - 1) |-> 0]
    /\ waste = 0
    /\ bin_type_distribution_map = <<>>
    /\ action_mask = <<>>
    /\ opened = 0
    /\ ret = [op |-> "init", action |-> 0, reward |-> 0, done |-> FALSE,
              error |-> FALSE, obs |-> "none"]
    /\ MatchIdle
    /\ submitted = Zero
    /\ OracleIdle
    /\ PairIdle

\* mutant: reset leaves the waste of the last step in place
ResetKeepsWaste ==
    /\ variant \in BinEngines
    /\ \E first \in ItemDraws :
        /\ item_size' = first
        /\ action_mask' = IF variant = "mask"
                          THEN BinActionMask([l \in 0..(bag_capacity - 1) |-> 0], first)
                          ELSE <<>>
    /\ time_remaining' = time_horizon
    /\ num_full_bags' = 0
    /\ num_bins_levels' = [l \in 0..(bag_capacity - 1) |-> 0]
    /\ bin_type_distribution_map' = <<>>
    /\ opened' = 0
    /\ ret' = [op |-> "reset", action |-> 0, reward |-> 0, done |-> FALSE,
               error |-> FALSE, obs |-> "state"]
    /\ UNCHANGED <<variant, waste, matchVars, submitted, oracleVars, pairVars>>

\* BinPackingGymEnvironment.reset, and BinPackingActionMaskGymEnvironment.reset
Reset ==
    /\ variant \in BinEngines
    /\ \E first \in ItemDraws :
        /\ item_size' = first
        /\ action_mask' = IF variant = "mask"
                          THEN BinActionMask([l \in 0..(bag_capacity - 1) |-> 0], first)
                          ELSE <<>>
    /\ time_remaining' = time_horizon
    /\ num_full_bags' = 0
    /\ num_bins_levels' = [l \in 0..(bag_capacity - 1) |-> 0]
    /\ waste' = 0
    /\ bin_type_distribution_map' = <<>>
    /\ opened' = 0
    /\ ret' = [op |-> "reset", action |-> 0, reward |-> 0, done |-> FALSE,
               error |-> FALSE, obs |-> "state"]
    /\ UNCHANGED <<variant, matchVars, submitted, oracleVars, pairVars>>

\* step(a) of the engine's class, a drawn from the integers in A.  A call
\* that raised ends the episode for the caller: only reset follows it.
Step(A) ==
    /\ variant \in BinVariants
    /\ ret.op \in {"reset", "step"}
    /\ ~ret.error
    /\ time_remaining > 0
    /\ \E a \in A, nxt \in ItemDraws :
         \E k \in KeyChoices(bin_type_distribution_map, MapTarget(variant, Cur, a)) :
            \E r \in {StepResult(variant, Cur, a, k, nxt)} :
               /\ num_bins_levels' = r.levels
               /\ num_full_bags' = r.full
               /\ waste' = r.waste
               /\ bin_type_distribution_map' = r.map
               /\ time_remaining' = r.time
               /\ item_size' = r.item
               /\ opened' = r.opened
               /\ action_mask' = IF variant = "mask" /\ ~r.error
                                 THEN BinActionMask(r.levels, r.item)
                                 ELSE action_mask
               /\ ret' = IF r.error
                         THEN [op |-> "step", action |-> a, reward |-> 0, done |-> FALSE,
                               error |-> TRUE, obs |-> "none"]
                         ELSE [op |-> "step", action |-> a, reward |-> r.reward,
                               done |-> r.done, error |-> FALSE, obs |-> "state"]
    /\ UNCHANGED <<variant, matchVars, submitted, oracleVars, pairVars>>

\* step(x) of the continuous engine.  ret.action records the integer handed
\* to the near-action step.
StepContinuous ==
    /\ variant = "continuous"
    /\ ret.op \in {"reset", "step"}
    /\ ~ret.error
    /\ time_remaining > 0
    /\ \E x \in SubmittedReals, nxt \in ItemDraws :
         \E k \in KeyChoices(bin_type_distribution_map,
                              MapTarget("near", Cur, ContinuousAction(x))) :
            \E r \in {ContinuousStep(Cur, x, k, nxt)} :
               /\ submitted' = x
               /\ num_bins_levels' = r.levels
               /\ num_full_bags' = r.full
               /\ waste' = r.waste
               /\ bin_type_distribution_map' = r.map
               /\ time_remaining' = r.time
               /\ item_size' = r.item
               /\ opened' = r.opened
               /\ ret' = IF r.error
                         THEN [op |-> "step", action |-> ContinuousAction(x), reward |-> 0,
                               done |-> FALSE, error |-> TRUE, obs |-> "none"]
                         ELSE [op |-> "step", action |-> ContinuousAction(x),
                               reward |-> r.reward, done |-> r.done, error |-> FALSE,
                               obs |-> "state"]
    /\ UNCHANGED <<variant, action_mask, matchVars, oracleVars, pairVars>>

Next == Reset \/ Step(InRangeActions) \/ StepContinuous

Spec == Init /\ [][Next]_vars

NextAny == Reset \/ Step(AnyActions) \/ StepContinuous

SpecAny == Init /\ [][NextAny]_vars

(***************************************************************************)
(* Bin packing: two objects of the strict engine run from the same state   *)
(* of the random stream.  The stream is a sequence of words; every draw of *)
(* np.random.choice reads the words after the position of its run.  Only  *)
(* the words one run has read and the other has not are kept.              *)
(***************************************************************************)
\* the words a draw can read
StreamWords == {i - 1 : i \in {j \in 1..Len(item_sizes) : item_probabilities[j] > 0}}

\* __get_item: the index np.random.choice(num_items, p) makes of a word
ItemOfWord(w) == item_sizes[w + 1]

\* line 297: the key np.random.choice makes of a word, among n keys
KeyOfWord(w, n) == (w % n) + 1

\* the keys line 297 draws among, 0 when the step does not reach the line
KeysDrawnAmong(s, a) ==
    IF StrictBranch(s.levels, s.item, a) = "insert"
       /\ a \in DOMAIN s.map
    THEN Len(s.map[a])
    ELSE 0

\* the words the draw of line 297 reads: one among two keys or more; among a
\* single key the library may return it without reading the stream
KeyWords(n) == IF n >= 2 THEN {1} ELSE IF n = 1 THEN {0, 1} ELSE {0}

\* step(a) of an engine object that has read p words of st
StreamStep(s, a, st, p) ==
    {[r |-> StrictStep(s, a,
                       IF KeysDrawnAmong(s, a) >= 2
                       THEN KeyOfWord(st[p + 1], KeysDrawnAmong(s, a)) ELSE 1,
                       ItemOfWord(st[p + c + 1])),
      pos |-> p + c + 1] : c \in KeyWords(KeysDrawnAmong(s, a))}

\* the actions of the caller of the second object: a new bag for every item,
\* which is in range for every item and never ends the episode early
TwinActions == {0}

Min(x, y) == IF x < y THEN x ELSE y

Max(x, y) == IF x > y THEN x ELSE y

InitPair ==
    /\ variant = "strict"
    /\ time_remaining = 0
    /\ item_size = 0
    /\ num_full_bags = 0
    /\ num_bins_levels = [l \in 0..(bag_capacity - 1) |-> 0]
    /\ waste = 0
    /\ bin_type_distribution_map = <<>>
    /\ action_mask = <<>>
    /\ opened = 0
    /\ ret = [op |-> "init", action |-> 0, reward |-> 0, done |-> FALSE,
              error |-> FALSE, obs |-> "none"]
    /\ MatchIdle
    /\ submitted = Zero
    /\ OracleIdle
    /\ stream = <<>>
    /\ stream_pos = [a |-> 0, b |-> 0]
    /\ twin = [NoTwin EXCEPT !.levels = [l \in 0..(bag_capacity - 1) |-> 0]]

\* reset() of both objects, the stream of both in the same state: both read
\* the same word for the first item
PairReset ==
    /\ variant = "strict"
    /\ twin.levels # <<>>
    /\ \E w \in StreamWords :
         /\ item_size' = ItemOfWord(w)
         /\ twin' = [NoTwin EXCEPT !.levels = [l \in 0..(bag_capacity - 1) |-> 0],
                                   !.time = time_horizon,
                                   !.item = ItemOfWord(w)]
    /\ stream' = <<>>
    /\ stream_pos' = [a |-> 0, b |-> 0]
    /\ time_remaining' = time_horizon
    /\ num_full_bags' = 0
    /\ num_bins_levels' = [l \in 0..(bag_capacity - 1) |-> 0]
    /\ waste' = 0
    /\ bin_type_distribution_map' = <<>>
    /\ opened' = 0
    /\ ret' = [op |-> "reset", action |-> 0, reward |-> 0, done |-> FALSE,
               error |-> FALSE, obs |-> "state"]
    /\ UNCHANGED <<variant, action_mask, matchVars, submitted, oracleVars>>

\* step(a) of the first object and step(b) of the second, while neither has
\* returned terminal.  A word that neither run has read yet is any word.
PairStep ==
    /\ variant = "strict"
    /\ twin.levels # <<>>
    /\ ret.op \in {"reset", "step"}
    /\ ~ret.error /\ ~ret.done
    /\ ~twin.error /\ ~twin.done
    /\ time_remaining > 0
    /\ \E a \in InRangeActions, b \in TwinActions, w1 \in StreamWords, w2 \in StreamWords :
         \E x \in StreamStep(Cur, a, stream \o <<w1, w2>>, stream_pos.a),
            y \in StreamStep(twin, b, stream \o <<w1, w2>>, stream_pos.b) :
            /\ num_bins_levels' = x.r.levels
            /\ num_full_bags' = x.r.full
            /\ waste' = x.r.waste
            /\ bin_type_distribution_map' = x.r.map
            /\ time_remaining' = x.r.time
            /\ item_size' = x.r.item
            /\ opened' = x.r.opened
            /\ ret' = [op |-> "step", action |-> a, reward |-> x.r.reward,
                       done |-> x.r.done, error |-> x.r.error, obs |-> "state"]
            /\ twin' = [y.r EXCEPT !.reward = 0]
            /\ stream' = SubSeq(stream \o <<w1, w2>>,
                                Min(x.pos, y.pos) + 1, Max(x.pos, y.pos))
            /\ stream_pos' = [a |-> x.pos - Min(x.pos, y.pos),
                              b |-> y.pos - Min(x.pos, y.pos)]
    /\ UNCHANGED <<variant, action_mask, matchVars, submitted, oracleVars>>

NextPair == PairReset \/ PairStep

SpecPair == InitPair /\ [][NextPair]_vars

(***************************************************************************)
(* Matching: graphs                                                        *)
(***************************************************************************)
\* number n of the header line of a graph file, and the size of the
\* upper-triangle configuration
graph_n == 2

MatchVariants == {"permutation_mask", "stochastic", "upper_triangle_mask"}

\* with BipartiteMatchingGymEnvironment of environment.py
MatchEngines == MatchVariants \cup {"bipartite"}

\* Python's list[i]
PyAt(list, i) == list[i + 1]

Range(list) == {list[i] : i \in 1..Len(list)}

RECURSIVE SetToSeq(_)
SetToSeq(S) ==
    IF S = {} THEN <<>>
    ELSE LET e == CHOOSE x \in S : \A y \in S : x[1] < y[1] \/ (x[1] = y[1] /\ x[2] <= y[2])
         IN <<e>> \o SetToSeq(S \ {e})

\* the edge lines "x y" of a file, 1-indexed as written
GraphFiles == {SetToSeq(S) : S \in SUBSET ((1..graph_n) \X (1..graph_n))}

\* mutant: the first column of the line is taken as the offline vertex
AddEdgeLineTransposed(edges, n, line) ==
    LET x == line[2] - 1
        y == line[1] - 1
        e1 == [edges EXCEPT ![x + 1] = Append(@, y + n)]
    IN [e1 EXCEPT ![y + n + 1] = Append(@, x)]

\* the graph files an oracle is built for: the first online vertex joined to
\* every offline vertex, each online vertex joined to its own number, and each
\* online vertex joined to its own number and the next
OracleFiles ==
    {SetToSeq({l \in (1..graph_n) \X (1..graph_n) : l[1] = 1}),
     SetToSeq({l \in (1..graph_n) \X (1..graph_n) : l[1] = l[2]}),
     SetToSeq({l \in (1..graph_n) \X (1..graph_n) : l[1] = l[2] \/ l[1] + 1 = l[2]})}

\* lines 47-52: one edge line appended to both adjacency lists
AddEdgeLine(edges, n, line) ==
    LET x == line[1] - 1
        y == line[2] - 1
        e1 == [edges EXCEPT ![x + 1] = Append(@, y + n)]
    IN [e1 EXCEPT ![y + n + 1] = Append(@, x)]

RECURSIVE ReadEdgeLines(_, _, _)
ReadEdgeLines(edges, n, lines) ==
    IF lines = <<>> THEN edges
    ELSE ReadEdgeLines(AddEdgeLine(edges, n, Head(lines)), n, Tail(lines))

\* OnlineGraphGymEnvironment.read_graph_from_file
ReadGraphFromFile(n, lines) ==
    [offline |-> n, online |-> n, time_horizon |-> n,
     edges |-> ReadEdgeLines([i \in 1..(n + n) |-> <<>>], n, lines)]

\* BipartiteMatchingGymEnvironment_UpperTriangle.__init__ (lines 240-243)
UpperTriangleGraph(offline, online, horizon) ==
    [offline |-> offline, online |-> online, time_horizon |-> horizon,
     edges |-> [i \in 1..online |->
                   [j \in 1..(IF offline > i - 1 THEN offline - (i - 1) ELSE 0) |->
                       online + (i - 1) + (j - 1)]]]

(***************************************************************************)
(* Matching: the step functions                                            *)
(***************************************************************************)
MCur == [matched |-> matched_offline_list, rl |-> rl_matching,
         time |-> time_remaining, type |-> online_type,
         types |-> online_type_list,
         reward |-> 0, done |-> FALSE, error |-> FALSE, obs |-> "none"]

\* the if/elif chain of OnlineGraphGymEnvironment.step (lines 63-82) and of
\* BipartiteMatchingGymEnvironment_UpperTriangle.step (lines 281-304)
MatchBranch(g, t, matched, a) ==
    IF a > g.offline THEN "raise"
    ELSE IF a = g.offline THEN "skip"
    ELSE IF (a + g.online) \notin Range(PyAt(g.edges, t)) THEN "not_neighbor"
    ELSE IF PyAt(matched, PyIndex(a, g.offline)) = 1 THEN "already_matched"
    ELSE "match"

\* mutant: the action itself is recorded
MatchOfflinePlain(s, g, a) ==
    [s EXCEPT !.reward = 1,
              !.rl = Append(@, a),
              !.matched = [@ EXCEPT ![PyIndex(a, g.offline) + 1] = 1]]

\* mutant: the matched vector is rebuilt around the new match
MatchOfflineRebuilt(s, g, a) ==
    [s EXCEPT !.reward = 1,
              !.rl = Append(@, a + g.online),
              !.matched = [i \in 1..g.offline |-> IF i = a + 1 THEN 1 ELSE 0]]

\* lines 82-85
MatchOffline(s, g, a) ==
    [s EXCEPT !.reward = 1,
              !.rl = Append(@, a + g.online),
              !.matched = [@ EXCEPT ![PyIndex(a, g.offline) + 1] = 1]]

\* mutant: a refused choice leaves no entry in rl_matching
RecordNoMatchDropped(s) == s

\* lines 71, 75, 80
RecordNoMatch(s) == [s EXCEPT !.rl = Append(@, 0 - 1)]

\* lines 87-90
Tick(s) == [s EXCEPT !.time = @ - 1, !.done = (s.time - 1 = 0)]

\* OnlineGraphGymEnvironment.step
GraphStep(s, g, a) ==
    LET b == MatchBranch(g, s.type, s.matched, a)
    IN CASE b = "raise" -> [s EXCEPT !.error = TRUE]
         [] b \in {"skip", "not_neighbor", "already_matched"} -> Tick(RecordNoMatch(s))
         [] b = "match" -> Tick(MatchOffline(s, g, a))

\* mutant: the order is read at the position of the step just taken
PermutationStepStale(s, g, order, a) ==
    LET r == GraphStep(s, g, a)
        t == PyAt(order, g.time_horizon - s.time)
    IN IF r.error THEN r
       ELSE IF ~r.done
       THEN [r EXCEPT !.type = t, !.types = Append(@, t), !.obs = "state"]
       ELSE [r EXCEPT !.obs = "none"]

\* OnlineBipartiteMatchingGymEnvironment.step: the next arrival is read from
\* the shuffled order unless the episode is done
PermutationStep(s, g, order, a) ==
    LET r == GraphStep(s, g, a)
        t == PyAt(order, g.time_horizon - r.time)
    IN IF r.error THEN r
       ELSE IF ~r.done
       THEN [r EXCEPT !.type = t, !.types = Append(@, t), !.obs = "state"]
       ELSE [r EXCEPT !.obs = "none"]

\* StochasticBipartiteMatchingGymEnvironment.step: a new arrival is drawn on
\* every step
StochasticStep(s, g, a, draw) ==
    LET r == GraphStep(s, g, a)
    IN IF r.error THEN r ELSE [r EXCEPT !.type = draw, !.obs = "state"]

\* BipartiteMatchingGymEnvironment_UpperTriangle.step.  The skip branch calls
\* pdb.set_trace() (line 288): the call returns when the debugger session is
\* resumed and raises BdbQuit when it is quit.
UpperTriangleStep(s, g, a, resumed) ==
    LET b == MatchBranch(g, s.type, s.matched, a)
        r == GraphStep(s, g, a)
        t == g.time_horizon - r.time
    IN IF r.error \/ (b = "skip" /\ ~resumed) THEN [s EXCEPT !.error = TRUE]
       ELSE IF ~r.done
       THEN [r EXCEPT !.type = t, !.types = Append(@, t), !.obs = "state"]
       ELSE [r EXCEPT !.obs = "none"]

\* BipartiteMatchingGymEnvironment.__init__ with offline, online and
\* time_horizon configured and the default edges
BipartiteConfig(offline, online, horizon) ==
    [offline |-> offline, online |-> online, time_horizon |-> horizon, edges |-> <<>>]

\* read_graph_from_file of environment.py (lines 47-65): edges[x] lists the
\* offline numbers y themselves, edges[y + n] the online numbers x
BipartiteAddEdgeLine(edges, n, line) ==
    LET x == line[1] - 1
        y == line[2] - 1
        e1 == [edges EXCEPT ![x + 1] = Append(@, y)]
    IN [e1 EXCEPT ![y + n + 1] = Append(@, x)]

RECURSIVE BipartiteReadEdgeLines(_, _, _)
BipartiteReadEdgeLines(edges, n, lines) ==
    IF lines = <<>> THEN edges
    ELSE BipartiteReadEdgeLines(BipartiteAddEdgeLine(edges, n, Head(lines)), n, Tail(lines))

\* the engine after __init__ and read_graph_from_file: time_horizon stays as
\* configured
BipartiteReadGraph(cfg, n, lines) ==
    [cfg EXCEPT !.offline = n, !.online = n,
                !.edges = BipartiteReadEdgeLines([i \in 1..(n + n) |-> <<>>], n, lines)]

\* the graph files given to the engine of environment.py
BipartiteFiles == OracleFiles

\* the if/elif chain of BipartiteMatchingGymEnvironment.step (lines 96-111):
\* list_matched_offline[action] is read before action is compared with
\* offline, and raises IndexError outside -offline..offline-1
BipartiteBranch(offline, matched, a) ==
    IF a > offline THEN "raise"
    ELSE IF ~PyIndexOK(a, offline) THEN "index_error"
    ELSE IF PyAt(matched, PyIndex(a, offline)) = 1 THEN "already_matched"
    ELSE IF a = offline THEN "skip"
    ELSE "match"

\* BipartiteMatchingGymEnvironment.step: no rl_matching is kept, and a new
\* arrival is drawn on every step
BipartiteStep(s, g, a, draw) ==
    LET b == BipartiteBranch(g.offline, s.matched, a)
        m == IF b = "match"
             THEN [s EXCEPT !.reward = 1,
                            !.matched = [@ EXCEPT ![PyIndex(a, g.offline) + 1] = 1]]
             ELSE s
    IN IF b \in {"raise", "index_error"} THEN [s EXCEPT !.error = TRUE]
       ELSE [Tick(m) EXCEPT !.type = draw, !.obs = "state"]

\* mutant: matched neighbours stay legal
MatchValidActionsAll(g, t, matched) ==
    {y - g.online : y \in Range(PyAt(g.edges, t))} \cup {g.offline}

\* __get_valid_actions of the two action-mask classes (lines 383-394, 440-451)
MatchValidActions(g, t, matched) ==
    {y - g.online : y \in {z \in Range(PyAt(g.edges, t)) :
                              PyAt(matched, PyIndex(z - g.online, g.offline)) = 0}}
    \cup {g.offline}

\* [1 if x in valid_actions else 0 for x in range(self.action_space.n)]
MatchActionMask(g, t, matched) ==
    [x \in 0..g.offline |-> IF x \in MatchValidActions(g, t, matched) THEN 1 ELSE 0]

\* the keys __init__ copies from env_config onto the object
config_defaults == {"offline", "online", "edges", "time_horizon"}

\* __set_online_arrival_rate: the weights of the online vertices, before the
\* division by their sum.  hasattr(self, 'arrival_rate') holds when __init__
\* copied that key and the option was given.
SetOnlineArrivalRate(cfg, online) ==
    IF "arrival_rate" \in config_defaults /\ cfg.arrival_rate # <<>>
    THEN cfg.arrival_rate
    ELSE [i \in 1..online |-> 1]

\* np.random.choice(self.online, p = online_arrival_rate) returns a vertex of
\* positive rate
ArrivalDraws(g) ==
    {t \in 0..(g.online - 1) : SetOnlineArrivalRate(env_config, g.online)[t + 1] > 0}

\* the orders np.random.shuffle can leave in online_vertex_arrival_order
ArrivalOrders(n) ==
    {p \in [1..n -> 0..(n - 1)] : \A i, j \in 1..n : p[i] = p[j] => i = j}

MatchStepResult(v, s, g, order, a, draw, resumed) ==
    CASE v = "permutation_mask" -> PermutationStep(s, g, order, a)
      [] v = "stochastic" -> StochasticStep(s, g, a, draw)
      [] v = "upper_triangle_mask" -> UpperTriangleStep(s, g, a, resumed)
      [] v = "bipartite" -> BipartiteStep(s, g, a, draw)

(***************************************************************************)
(* Matching: the calls                                                     *)
(***************************************************************************)
BinIdle ==
    /\ item_size = 0
    /\ num_full_bags = 0
    /\ num_bins_levels = <<>>
    /\ waste = 0
    /\ bin_type_distribution_map = <<>>
    /\ opened = 0

\* the bin-packing variables a matching engine never writes
binVarsIdle == <<item_size, num_full_bags, num_bins_levels, waste,
                 bin_type_distribution_map, opened>>

\* the options a file-backed engine is constructed with: a horizon one step
\* longer than the number of vertices of the file and, for the stochastic
\* engine, rates under which online vertex 0 never arrives
FileConfigs(v) ==
    IF v = "stochastic"
    THEN {[time_horizon |-> graph_n + 1,
           arrival_rate |-> [i \in 1..graph_n |-> IF i = 1 THEN 0 ELSE 1]]}
    ELSE {[time_horizon |-> graph_n + 1, arrival_rate |-> <<>>]}

\* the classes whose arrivals are drawn by np.random.choice
Drawn(v) == v \in {"stochastic", "bipartite"}

HasMask(v) == v \in {"permutation_mask", "upper_triangle_mask"}

\* the integers a caller submits to a matching engine: the action space
\* 0..offline, one integer below it and one above
MatchActions(g) == (0 - 1)..(g.offline + 1)

\* after __init__ of the class
InitMatch ==
    /\ variant \in MatchEngines
    /\ graph_file \in CASE variant \in {"permutation_mask", "stochastic"} -> GraphFiles
                       [] variant = "bipartite" -> BipartiteFiles
                       [] OTHER -> {<<>>}
    /\ env_config \in IF variant \in {"permutation_mask", "stochastic"}
                      THEN FileConfigs(variant)
                      ELSE {[time_horizon |-> graph_n, arrival_rate |-> <<>>]}
    /\ graph = CASE variant = "upper_triangle_mask" ->
                       UpperTriangleGraph(graph_n, graph_n, graph_n)
                 [] variant = "bipartite" ->
                       BipartiteReadGraph(BipartiteConfig(graph_n, graph_n, graph_n),
                                          graph_n, graph_file)
                 [] OTHER -> ReadGraphFromFile(graph_n, graph_file)
    /\ online_vertex_arrival_order =
           IF variant = "permutation_mask" THEN [i \in 1..graph.online |-> i - 1] ELSE <<>>
    /\ time_remaining = 0
    /\ online_type = 0
    /\ matched_offline_list = <<>>
    /\ rl_matching = <<>>
    /\ online_type_list = <<>>
    /\ action_mask = <<>>
    /\ ret = [op |-> "init", action |-> 0, reward |-> 0, done |-> FALSE,
              error |-> FALSE, obs |-> "none"]
    /\ BinIdle
    /\ submitted = Zero
    /\ OracleIdle
    /\ PairIdle

\* reset of the three classes (lines 133-158, 198-220, 253-274) and of the
\* action-mask classes around them (lines 355-368, 411-424)
MatchReset ==
    /\ variant \in MatchEngines
    /\ \E order \in (IF variant = "permutation_mask"
                     THEN ArrivalOrders(graph.online) ELSE {<<>>}),
          draw \in (IF Drawn(variant) THEN ArrivalDraws(graph) ELSE {0}) :
         LET t == CASE variant = "permutation_mask" -> PyAt(order, 0)
                    [] Drawn(variant) -> draw
                    [] variant = "upper_triangle_mask" -> 0
             zeros == [i \in 1..graph.offline |-> 0]
         IN /\ online_vertex_arrival_order' = order
            /\ online_type' = t
            /\ online_type_list' = IF variant = "bipartite" THEN <<>> ELSE <<t>>
            /\ action_mask' = IF HasMask(variant)
                              THEN MatchActionMask(graph, t, zeros) ELSE <<>>
            /\ matched_offline_list' = zeros
    /\ time_remaining' = graph.time_horizon
    /\ rl_matching' = <<>>
    /\ ret' = [op |-> "reset", action |-> 0, reward |-> 0, done |-> FALSE,
               error |-> FALSE, obs |-> "state"]
    /\ UNCHANGED <<variant, graph, graph_file, env_config, binVarsIdle, submitted,
                   oracleVars, pairVars>>

\* step(a) of the engine's class.  A call that raised ends the episode for
\* the caller: only reset follows it.
MatchStep ==
    /\ variant \in MatchEngines
    /\ ret.op \in {"reset", "step"}
    /\ ~ret.error
    /\ time_remaining > 0
    /\ \E a \in MatchActions(graph),
          draw \in (IF Drawn(variant) THEN ArrivalDraws(graph) ELSE {0}),
          resumed \in (IF variant = "upper_triangle_mask" THEN BOOLEAN ELSE {TRUE}) :
         \E r \in {MatchStepResult(variant, MCur, graph, online_vertex_arrival_order,
                                   a, draw, resumed)} :
            /\ matched_offline_list' = r.matched
            /\ rl_matching' = r.rl
            /\ time_remaining' = r.time
            /\ online_type' = r.type
            /\ online_type_list' = r.types
            /\ action_mask' = IF HasMask(variant) /\ ~r.error
                              THEN MatchActionMask(graph, r.type, r.matched)
                              ELSE action_mask
            /\ ret' = IF r.error
                      THEN [op |-> "step", action |-> a, reward |-> 0, done |-> FALSE,
                            error |-> TRUE, obs |-> "none"]
                      ELSE [op |-> "step", action |-> a, reward |-> r.reward,
                            done |-> r.done, error |-> FALSE, obs |-> r.obs]
    /\ UNCHANGED <<variant, graph, graph_file, env_config, online_vertex_arrival_order,
                   binVarsIdle, submitted, oracleVars, pairVars>>

\* the reward step(a) returns in the current state
StepReward(a) == GraphStep(MCur, graph, a).reward

NextMatch == MatchReset \/ MatchStep

\* the bin-packing and the matching engines side by side
InitEngines == Init \/ InitMatch

NextEngines == Reset \/ Step(InRangeActions) \/ StepContinuous \/ MatchReset \/ MatchStep

SpecEngines == InitEngines /\ [][NextEngines]_vars

SpecMatch == InitMatch /\ [][NextMatch]_vars

(***************************************************************************)
(* The oracle table of StochasticBipartiteMatchingActionMaskGymEnvironment *)
(* and its cache file edge_with_prob.txt.  A probability is held as the    *)
(* number c of times 1.0 / sample_num was added to it; the representable   *)
(* values are the multiples of 1 / sample_num.  A line of the file is the  *)
(* sequence of its characters.                                             *)
(***************************************************************************)
\* sample_num of the call optimal_matching_prob(1000, self.online), scaled down
sample_num == 2

DigitChars == <<"0", "1", "2", "3", "4", "5", "6", "7", "8", "9">>

IsDigit(ch) == \E d \in 0..9 : DigitChars[d + 1] = ch

DigitVal(ch) == CHOOSE d \in 0..9 : DigitChars[d + 1] = ch

\* str(n) of an integer n >= 0
Str(n) == [i \in 1..Len(Digits(n)) |-> DigitChars[Digits(n)[i] + 1]]

RECURSIVE Pow10(_)
Pow10(d) == IF d = 0 THEN 1 ELSE 10 * Pow10(d - 1)

\* a / b rounded to the nearest integer, a tie to the even one
RoundHalfEven(a, b) ==
    LET q == a \div b
        r == a % b
    IN IF 2 * r < b THEN q
       ELSE IF 2 * r > b THEN q + 1
       ELSE IF q % 2 = 0 THEN q ELSE q + 1

\* the representable value nearest to the decimal m / 10^d
NearestValue(m, d) == RoundHalfEven(m * sample_num, Pow10(d))

\* repr of a float: the fewest fraction digits d >= from whose decimal reads
\* back as the same value
RECURSIVE ShortestRepr(_, _)
ShortestRepr(c, from) ==
    LET m == RoundHalfEven(c * Pow10(from), sample_num)
    IN IF NearestValue(m, from) = c THEN [m |-> m, d |-> from]
       ELSE ShortestRepr(c, from + 1)

\* n written with exactly d digits
RECURSIVE PadDigits(_, _)
PadDigits(n, d) ==
    IF d = 0 THEN <<>> ELSE Append(PadDigits(n \div 10, d - 1), DigitChars[(n % 10) + 1])

\* f"{p}" of a probability
ReprFloat(c) ==
    LET r == ShortestRepr(c, 1)
    IN Str(r.m \div Pow10(r.d)) \o <<".">> \o PadDigits(r.m % Pow10(r.d), r.d)

\* line 511: f"{i}, {k}, {self.type_prob[i][k]}\n"
FormatLine(i, k, c) ==
    Str(i) \o <<",", " ">> \o Str(k) \o <<",", " ">> \o ReprFloat(c) \o <<"\n">>

IsSpace(ch) == ch \in {" ", "\n", "\t", "\r"}

\* str.strip()
RECURSIVE Strip(_)
Strip(t) ==
    IF t = <<>> THEN t
    ELSE IF IsSpace(Head(t)) THEN Strip(Tail(t))
    ELSE IF IsSpace(t[Len(t)]) THEN Strip(SubSeq(t, 1, Len(t) - 1))
    ELSE t

\* str.split(sep): the fields between the separators
RECURSIVE Split(_, _)
Split(t, sep) ==
    IF \A i \in 1..Len(t) : t[i] # sep THEN <<t>>
    ELSE LET i == CHOOSE j \in 1..Len(t) :
                      t[j] = sep /\ \A h \in 1..(j - 1) : t[h] # sep
         IN <<SubSeq(t, 1, i - 1)>> \o Split(SubSeq(t, i + 1, Len(t)), sep)

RECURSIVE DigitsValue(_)
DigitsValue(t) ==
    IF t = <<>> THEN 0 ELSE 10 * DigitsValue(SubSeq(t, 1, Len(t) - 1)) + DigitVal(t[Len(t)])

AllDigits(t) == t # <<>> /\ \A i \in 1..Len(t) : IsDigit(t[i])

\* int(field) accepts surrounding blanks; ok is false where it raises ValueError
ParseInt(field) ==
    LET t == Strip(field)
    IN IF AllDigits(t) THEN [ok |-> TRUE, v |-> DigitsValue(t)]
       ELSE [ok |-> FALSE, v |-> 0]

\* mutant: the fraction digits are not read
ParseFloatWhole(field) ==
    LET parts == Split(Strip(field), ".")
    IN IF Len(parts) = 2 /\ AllDigits(parts[1]) /\ AllDigits(parts[2])
       THEN [ok |-> TRUE, v |-> NearestValue(DigitsValue(parts[1]), 0)]
       ELSE [ok |-> FALSE, v |-> 0]

\* float(field) of "digits.digits": the representable value nearest to it
ParseFloat(field) ==
    LET parts == Split(Strip(field), ".")
    IN IF Len(parts) = 2 /\ AllDigits(parts[1]) /\ AllDigits(parts[2])
       THEN [ok |-> TRUE,
             v |-> NearestValue(DigitsValue(parts[1] \o parts[2]), Len(parts[2]))]
       ELSE [ok |-> FALSE, v |-> 0]

\* lines 472-474, 496-498: one empty dict per online vertex
EmptyTable(n) == [i \in 1..n |-> <<>>]

\* lines 480-483: d[key] += 1.0 / sample_num, the key inserted when new
DictAdd(d, key) ==
    IF KeyIndex(d, key) = 0 THEN Append(d, [key |-> key, p |-> 1])
    ELSE [d EXCEPT ![KeyIndex(d, key)].p = @ + 1]

\* line 505: d[key] = p
DictSet(d, key, p) ==
    IF KeyIndex(d, key) = 0 THEN Append(d, [key |-> key, p |-> p])
    ELSE [d EXCEPT ![KeyIndex(d, key)].p = p]

\* lines 477-483: the first n arrivals of one realization added to the table
RECURSIVE AddMatches(_, _, _, _)
AddMatches(table, types, res, n) ==
    IF n = 0 THEN table
    ELSE LET t == AddMatches(table, types, res, n - 1)
         IN IF res[n] # 0 - 1
            THEN [t EXCEPT ![types[n] + 1] = DictAdd(@, res[n])]
            ELSE t

\* realize: real_size arrivals, each np.random.randint(0, self.online)
Realizations(g, real_size) == [1..real_size -> 0..(g.online - 1)]

\* the matchings of a realization: per arrival a neighbour of its type, as
\* stored in edges, or -1, no offline vertex taken twice
ValidMatchings(g, types) ==
    {res \in [1..Len(types) -> {0 - 1} \cup (g.online..(g.online + g.offline - 1))] :
        /\ \A i \in 1..Len(types) :
              res[i] # 0 - 1 => res[i] \in Range(PyAt(g.edges, types[i]))
        /\ \A i, j \in 1..Len(types) :
              (i # j /\ res[i] # 0 - 1) => res[i] # res[j]}

MatchingSize(res) == Cardinality({i \in 1..Len(res) : res[i] # 0 - 1})

\* the external solver: any matching of the realization of maximum size
Max_matching(g, types) ==
    LET valid == ValidMatchings(g, types)
        best == CHOOSE k \in 0..Len(types) :
                    /\ \E res \in valid : MatchingSize(res) = k
                    /\ \A res \in valid : MatchingSize(res) <= k
    IN {res \in valid : MatchingSize(res) = best}

\* lines 509-511: the lines written for the dict of online vertex i
RECURSIVE DictLines(_, _)
DictLines(i, d) ==
    IF d = <<>> THEN <<>>
    ELSE <<FormatLine(i, Head(d).key, Head(d).p)>> \o DictLines(i, Tail(d))

RECURSIVE TableLines(_, _)
TableLines(table, n) ==
    IF n = 0 THEN <<>>
    ELSE TableLines(table, n - 1) \o DictLines(n - 1, table[n])

\* lines 500-505 for one line of the file
LoadLine(acc, line) ==
    LET fields == Split(Strip(line), ",")
        i == ParseInt(fields[1])
        j == ParseInt(fields[2])
        q == ParseFloat(fields[3])
    IN IF ~acc.ok THEN acc
       ELSE IF Len(fields) # 3 THEN [acc EXCEPT !.ok = FALSE]
       ELSE IF ~(i.ok /\ j.ok /\ q.ok) THEN [acc EXCEPT !.ok = FALSE]
       ELSE IF ~PyIndexOK(i.v, Len(acc.table)) THEN [acc EXCEPT !.ok = FALSE]
       ELSE [acc EXCEPT !.table[i.v + 1] = DictSet(@, j.v, q.v)]

\* lines 496-505: the table read back from the file
RECURSIVE LoadTable(_, _)
LoadTable(lines, n) ==
    IF lines = <<>> THEN [ok |-> TRUE, table |-> EmptyTable(n)]
    ELSE LoadLine(LoadTable(SubSeq(lines, 1, Len(lines) - 1), n), lines[Len(lines)])

(***************************************************************************)
(* The oracle: the calls.  optimal_matching_prob is followed through its   *)
(* loop, one realization per step; nothing else runs until the file is     *)
(* written.                                                                *)
(***************************************************************************)
InitOracle ==
    /\ variant = "stochastic_oracle"
    /\ graph_file \in OracleFiles
    /\ env_config = [time_horizon |-> graph_n, arrival_rate |-> <<>>]
    /\ graph = ReadGraphFromFile(graph_n, graph_file)
    /\ online_vertex_arrival_order = <<>>
    /\ time_remaining = 0
    /\ online_type = 0
    /\ matched_offline_list = <<>>
    /\ rl_matching = <<>>
    /\ online_type_list = <<>>
    /\ action_mask = <<>>
    /\ ret = [op |-> "init", action |-> 0, reward |-> 0, done |-> FALSE,
              error |-> FALSE, obs |-> "none"]
    /\ BinIdle
    /\ submitted = Zero
    /\ OracleIdle
    /\ PairIdle

oracleFrame == <<variant, graph, graph_file, env_config, binVarsIdle, submitted, pairVars,
                 time_remaining,
                 online_type, matched_offline_list, rl_matching,
                 online_vertex_arrival_order, action_mask>>

\* get_optimal_matching_prob, called by __init__ of a new engine object for
\* the same graph file: lines 494-505 when the cache file exists, else the
\* entry of optimal_matching_prob (lines 472-474)
GetOptimalMatchingProb ==
    /\ variant = "stochastic_oracle"
    /\ oracle.pc \in {"idle", "ready"}
    /\ IF cache_file.exists
       THEN \E l \in {LoadTable(cache_file.lines, graph.online)} :
               /\ type_prob' = l.table
               /\ oracle' = [pc |-> "ready", count |-> 0, sampled |-> 0, solved |-> 0,
                             wrote |-> FALSE, hit |-> TRUE]
               /\ ret' = [op |-> "get_optimal_matching_prob", action |-> 0, reward |-> 0,
                          done |-> FALSE, error |-> ~l.ok, obs |-> "none"]
       ELSE /\ type_prob' = EmptyTable(graph.online)
            /\ oracle' = [pc |-> "sampling", count |-> 0, sampled |-> 0, solved |-> 0,
                          wrote |-> FALSE, hit |-> FALSE]
            /\ ret' = [op |-> "get_optimal_matching_prob", action |-> 0, reward |-> 0,
                       done |-> FALSE, error |-> FALSE, obs |-> "none"]
    /\ online_type_list' = <<>>
    /\ UNCHANGED <<cache_file, persisted, oracleFrame>>

\* one pass of the loop of lines 475-483: realize, solve, accumulate
SampleRealization ==
    /\ variant = "stochastic_oracle"
    /\ oracle.pc = "sampling"
    /\ oracle.count < sample_num
    /\ \E types \in Realizations(graph, graph.online) :
         \E res \in Max_matching(graph, types) :
            /\ online_type_list' = types
            /\ type_prob' = AddMatches(type_prob, types, res, graph.online)
    /\ oracle' = [oracle EXCEPT !.count = @ + 1, !.sampled = @ + 1, !.solved = @ + 1]
    /\ UNCHANGED <<cache_file, persisted, ret, oracleFrame>>

\* lines 508-511, after the last realization
WriteCacheFile ==
    /\ variant = "stochastic_oracle"
    /\ oracle.pc = "sampling"
    /\ oracle.count = sample_num
    /\ cache_file' = [exists |-> TRUE, lines |-> TableLines(type_prob, graph.online)]
    /\ persisted' = type_prob
    /\ oracle' = [oracle EXCEPT !.pc = "ready", !.wrote = TRUE]
    /\ UNCHANGED <<type_prob, online_type_list, ret, oracleFrame>>

NextOracle == GetOptimalMatchingProb \/ SampleRealization \/ WriteCacheFile

SpecOracle == InitOracle /\ [][NextOracle]_vars

(***************************************************************************)
(* Properties                                                              *)
(***************************************************************************)
RECURSIVE SumCounts(_)
SumCounts(entries) ==
    IF entries = <<>> THEN 0 ELSE Head(entries).n + SumCounts(Tail(entries))

\* the bins the map records at a level, 0 when the level is absent
MapCount(map, l) == IF l \in DOMAIN map THEN SumCounts(map[l]) ELSE 0

RECURSIVE SumLevels(_, _)
SumLevels(levels, n) ==
    IF n = 0 THEN 0 ELSE levels[n - 1] + SumLevels(levels, n - 1)

RECURSIVE SumVolume(_, _)
SumVolume(levels, n) ==
    IF n = 0 THEN 0 ELSE levels[n - 1] * (n - 1) + SumVolume(levels, n - 1)

Placing == {"strict", "near", "mask"}

Returned == ret.op = "step" /\ ~ret.error

\* C1: in the strict and near-action engines, after reset and any steps with
\* actions in 0..bag_capacity-1, the counts the distribution map stores at
\* every level l in 0..bag_capacity-1 (0 when absent) sum to num_bins_levels[l].
C1_DistributionMapConsistent ==
    variant \in Placing =>
        \A l \in 0..(bag_capacity - 1) :
            MapCount(bin_type_distribution_map, l) = num_bins_levels[l]

\* a bin was just moved between levels while some level holds two compositions
C1_Witness ==
    /\ variant \in Placing
    /\ Returned /\ ret.reward > 0
    /\ \E l \in DOMAIN bin_type_distribution_map :
          /\ Len(bin_type_distribution_map[l]) >= 2
          /\ num_bins_levels[l] >= 2

\* C2: in every matching engine a step never clears an entry of the matched
\* vector, whatever action is submitted.
C2_MatchedMonotone ==
    [][ret'.op = "step" =>
          \A i \in 1..Len(matched_offline_list) :
              matched_offline_list[i] = 1 => matched_offline_list'[i] = 1]_vars

\* a second step aimed at the vertex the first step matched
C2_Witness ==
    /\ variant \in MatchVariants
    /\ Returned /\ ret.reward = 0
    /\ Len(rl_matching) >= 2
    /\ rl_matching[1] = ret.action + graph.online
    /\ PyAt(matched_offline_list, ret.action) = 1

\* C3: in the action-mask bin-packing engine, after every reset and step,
\* action_mask[a] = 1 iff a = 0 or (num_bins_levels[a] > 0 and
\* a <= bag_capacity - item_size), and these are the actions the strict step
\* takes without the BIG_NEG_REWARD penalty in the same state.
C3_BinMaskSound ==
    (variant = "mask" /\ ret.op \in {"reset", "step"} /\ ~ret.error) =>
        \A a \in 0..(bag_capacity - 1) :
            /\ action_mask[a] = 1 <=>
                   (a = 0 \/ (num_bins_levels[a] > 0 /\ a <= bag_capacity - item_size))
            /\ action_mask[a] = 1 <=>
                   StrictBranch(num_bins_levels, item_size, a) \in {"new_bag", "insert"}

\* the mask allows one existing bin and forbids another that is too full
C3_Witness ==
    /\ variant = "mask" /\ Returned
    /\ \E a \in 1..(bag_capacity - 1) : action_mask[a] = 1
    /\ \E a \in 1..(bag_capacity - 1) : num_bins_levels[a] > 0 /\ action_mask[a] = 0

\* the adjacency test of the matching step (line 73)
EngineAdjacent(a, t) == (a + graph.online) \in Range(PyAt(graph.edges, t))

\* C4: in the two action-mask matching engines, after every reset and every
\* non-terminal step, action_mask[a] = 1 iff a = offline or (a is adjacent to
\* online_type and matched[a] = 0); a non-skip action is legal exactly when
\* step(a) would return reward 1.
C4_MatchMaskSound ==
    (HasMask(variant) /\ ret.op \in {"reset", "step"} /\ ~ret.error /\ ~ret.done) =>
        \A a \in 0..graph.offline :
            /\ action_mask[a] = 1 <=>
                   (a = graph.offline
                    \/ (EngineAdjacent(a, online_type)
                        /\ PyAt(matched_offline_list, a) = 0))
            /\ a # graph.offline =>
                   (action_mask[a] = 1 <=>
                        StepReward(a) = 1)

\* after a step, a matched neighbour is masked out while another is legal
C4_Witness ==
    /\ HasMask(variant) /\ Returned /\ ~ret.done
    /\ \E a \in 0..(graph.offline - 1) :
          /\ EngineAdjacent(a, online_type)
          /\ PyAt(matched_offline_list, a) = 1
          /\ action_mask[a] = 0
    /\ \E b \in 0..(graph.offline - 1) : action_mask[b] = 1

\* C5: sum of l * num_bins_levels[l], plus bag_capacity * num_full_bags, plus
\* waste, is at most bag_capacity times the bins opened since reset.
C5_Conservation ==
    variant \in Placing =>
        SumVolume(num_bins_levels, bag_capacity) + bag_capacity * num_full_bags + waste
            <= bag_capacity * opened

\* a bin was filled, and the last step opened another one
C5_Witness ==
    /\ variant \in Placing /\ Returned
    /\ num_full_bags >= 1 /\ opened >= 2 /\ waste > 0

\* C6: every num_bins_levels[l] is >= 0, and their sum is the bins opened
\* since reset minus num_full_bags.
C6_OpenBinsCounted ==
    variant \in Placing =>
        /\ \A l \in 0..(bag_capacity - 1) : num_bins_levels[l] >= 0
        /\ SumLevels(num_bins_levels, bag_capacity) = opened - num_full_bags

\* one bin full and closed, another still open
C6_Witness ==
    /\ variant \in Placing /\ Returned
    /\ num_full_bags >= 1
    /\ SumLevels(num_bins_levels, bag_capacity) >= 1

\* the condition of C8 on the action a in the state before the step
Unplaceable(a) ==
    a > bag_capacity - item_size \/ (a > 0 /\ num_bins_levels[a] = 0)

\* C8: a strict step with an in-range action that overflows or targets an
\* empty level returns BIG_NEG_REWARD - waste and terminal = true without
\* raising, and leaves levels, map, num_full_bags and waste unchanged.
C8_StrictPenalty ==
    [][(variant = "strict" /\ ret'.op = "step" /\ Unplaceable(ret'.action)) =>
          /\ ~ret'.error
          /\ ret'.reward = BIG_NEG_REWARD - waste
          /\ ret'.done
          /\ UNCHANGED <<num_bins_levels, bin_type_distribution_map,
                         num_full_bags, waste>>]_vars

\* the penalty was returned before the horizon, against a nonzero waste
C8_Witness ==
    /\ variant = "strict" /\ Returned
    /\ waste # 0
    /\ ret.reward = BIG_NEG_REWARD - waste
    /\ ret.done /\ time_remaining > 0

\* C9: the incremental-waste step returns the reward and leaves the levels,
\* map, waste and num_full_bags of the strict step, raises no error, and for
\* an overflow or empty-level action is terminal only at the horizon.
C9_IncrementalAsStrict ==
    [][(variant = "incremental" /\ ret'.op = "step") =>
          /\ ~ret'.error
          /\ \E k \in KeyChoices(bin_type_distribution_map, ret'.action) :
                LET r == StrictStep(Cur, ret'.action, k, item_size')
                IN /\ ret'.reward = r.reward
                   /\ num_bins_levels' = r.levels
                   /\ bin_type_distribution_map' = r.map
                   /\ waste' = r.waste
                   /\ num_full_bags' = r.full
          /\ Unplaceable(ret'.action) => (ret'.done <=> time_remaining' = 0)]_vars

\* C10: in the strict and near-action engines a step with an integer outside
\* 0..bag_capacity-1, negative ones included, aborts with an error.
C10_OutOfRangeAborts ==
    (variant \in Placing /\ ret.op = "step"
     /\ ret.action \notin 0..(bag_capacity - 1)) => ret.error

\* C11: in the matching engines a step with an integer outside 0..offline,
\* above offline or below 0, aborts with an error and is never absorbed as a
\* zero-reward step.
C11_MatchOutOfRangeAborts ==
    (variant \in MatchVariants /\ ret.op = "step"
     /\ ret.action \notin 0..graph.offline) => ret.error

\* the condition of C12 on the action a in the state before the step
Unmatchable(a) ==
    /\ a \in 0..(graph.offline - 1)
    /\ (~EngineAdjacent(a, online_type) \/ PyAt(matched_offline_list, a) = 1)

\* C12: in the permutation, stochastic and upper-triangle engines a step with
\* 0 <= a < offline, where a is not adjacent to online_type or matched[a] is
\* already 1, returns reward 0, appends -1 to rl_matching, leaves matched
\* unchanged, raises no error and is terminal only at the horizon.
C12_UnmatchableAbsorbed ==
    [][(variant \in MatchVariants /\ ret'.op = "step" /\ Unmatchable(ret'.action)) =>
          /\ ~ret'.error
          /\ ret'.reward = 0
          /\ rl_matching' = Append(rl_matching, 0 - 1)
          /\ matched_offline_list' = matched_offline_list
          /\ ret'.done => time_remaining' = 0]_vars

\* a free vertex that is not a neighbour was chosen, and the episode goes on
C12_Witness ==
    /\ variant \in MatchVariants
    /\ Returned /\ ret.reward = 0 /\ ~ret.done /\ time_remaining > 0
    /\ ret.action \in 0..(graph.offline - 1)
    /\ PyAt(matched_offline_list, ret.action) = 0
    /\ rl_matching # <<>>
    /\ rl_matching[Len(rl_matching)] = 0 - 1

\* the horizon H the engine object was built with
Horizon == IF variant \in BinEngines THEN time_horizon ELSE graph.time_horizon

\* C13: in every engine time_remaining is H after reset and every step
\* returns with time_remaining one lower; the step that brings it to 0, the
\* H-th, returns terminal = true, and outside the strict bin-packing engine
\* no earlier step does.
C13_HorizonCountdown ==
    [][/\ ret'.op = "reset" => time_remaining' = Horizon
       /\ ret'.op = "step" =>
             /\ ~ret'.error
             /\ time_remaining' = time_remaining - 1
             /\ time_remaining' = 0 => ret'.done
             /\ (variant # "strict" /\ ret'.done) => time_remaining' = 0]_vars

\* the file holds the edge line "x y"
FileHasLine(x, y) == \E i \in 1..Len(graph_file) : graph_file[i] = <<x, y>>

\* the engines whose graph is read by read_graph_from_file
FileBacked == variant \in {"permutation_mask", "stochastic"}

\* a step can be submitted: the last call returned and the horizon is not reached
Ready == ret.op \in {"reset", "step"} /\ ~ret.error /\ time_remaining > 0

\* C14 as stated: an edge line 'x y' joins offline vertex x-1 and online vertex
\* y-1, so with online_type = t and matched[a] = 0, step(a) returns reward 1
\* iff the file has a line with x-1 = a and y-1 = t.
C14_LineOfflineOnline ==
    (FileBacked /\ Ready) =>
        \A a \in 0..(graph.offline - 1) :
            PyAt(matched_offline_list, a) = 0 =>
                (StepReward(a) = 1 <=> FileHasLine(a + 1, online_type + 1))

\* C14 amended: an edge line 'x y' joins online vertex x-1 and offline vertex
\* y-1, so with online_type = t and matched[a] = 0, step(a) returns reward 1
\* iff the file has a line with x-1 = t and y-1 = a.
C14_LineOnlineOffline ==
    (FileBacked /\ Ready) =>
        \A a \in 0..(graph.offline - 1) :
            PyAt(matched_offline_list, a) = 0 =>
                (StepReward(a) = 1 <=> FileHasLine(online_type + 1, a + 1))

\* the first step matched the arrival t to a, where the file has the line
\* 't+1 a+1' and does not have the line 'a+1 t+1'
C14_Witness ==
    /\ FileBacked /\ Returned /\ ret.reward = 1
    /\ Len(rl_matching) = 1
    /\ FileHasLine(online_type_list[1] + 1, ret.action + 1)
    /\ ~FileHasLine(ret.action + 1, online_type_list[1] + 1)

\* the reference placement of the item at action l: the levels and
\* num_full_bags it leaves
Placed(l) ==
    IF l = 0
    THEN [levels |-> [num_bins_levels EXCEPT ![item_size] = @ + 1],
          full |-> num_full_bags]
    ELSE IF l + item_size < bag_capacity
    THEN [levels |-> [num_bins_levels EXCEPT ![l] = @ - 1, ![l + item_size] = @ + 1],
          full |-> num_full_bags]
    ELSE [levels |-> [num_bins_levels EXCEPT ![l] = @ - 1],
          full |-> num_full_bags + 1]

LegalLevels ==
    {l \in 1..(bag_capacity - 1) :
        num_bins_levels[l] > 0 /\ l <= bag_capacity - item_size}

\* the action C18 says is applied for the submitted action a
Applied(a) ==
    IF ~Unplaceable(a) THEN a
    ELSE IF LegalLevels = {} THEN 0
    ELSE CHOOSE l \in LegalLevels :
             \A m \in LegalLevels :
                 Abs(l - a) < Abs(m - a) \/ (Abs(l - a) = Abs(m - a) /\ l <= m)

\* C18: the near-action step applies a legal action unchanged and otherwise
\* the legal level nearest to it, the smaller one on a tie, or 0 when there is
\* none; the applied action is legal, the reward is not the penalty and the
\* step is terminal only at the horizon.
C18_NearestLegalApplied ==
    [][(variant \in {"near", "mask"} /\ ret'.op = "step"
        /\ ret'.action \in 0..(bag_capacity - 1)) =>
          /\ ~ret'.error
          /\ ~Unplaceable(Applied(ret'.action))
          /\ num_bins_levels' = Placed(Applied(ret'.action)).levels
          /\ num_full_bags' = Placed(Applied(ret'.action)).full
          /\ ret'.reward = IF Applied(ret'.action) = 0
                           THEN 0 - (bag_capacity - item_size) ELSE item_size
          /\ ret'.reward # BIG_NEG_REWARD - waste
          /\ ret'.done <=> time_remaining' = 0]_vars

\* an action that overflows its level was repaired to an existing bin
C18_Witness ==
    /\ variant \in {"near", "mask"} /\ Returned
    /\ ret.reward > 0
    /\ ret.action > bag_capacity - ret.reward

\* min(max(x, 0), 1) of the real last submitted
Clamped ==
    LET lower == IF submitted.num > 0 THEN submitted ELSE Zero
    IN IF lower.num < lower.den THEN lower ELSE [num |-> 1, den |-> 1]

C20_SkipReturns ==
    [][(variant \in MatchEngines /\ ret'.op = "step" /\ ret'.action = graph.offline) =>
          /\ ~ret'.error
          /\ ret'.reward = 0
          /\ matched_offline_list' = matched_offline_list
          /\ variant # "bipartite" => rl_matching' = Append(rl_matching, 0 - 1)]_vars

\* the (online, offline, probability) triples of a table
TableEntries(table) ==
    UNION {{<<i - 1, table[i][j].key, table[i][j].p>> : j \in 1..Len(table[i])} :
             i \in 1..Len(table)}

\* C15: when the cache file exists, get_optimal_matching_prob loads the table
\* from it without calling the sampler or the solver and without rewriting
\* the file, and the loaded table has the keys and probabilities of the
\* table persisted by the run that created the file.
C15_CacheHitLoads ==
    [][(variant = "stochastic_oracle" /\ oracle.pc \in {"idle", "ready"}
        /\ cache_file.exists) =>
          /\ oracle'.pc = "ready" /\ oracle'.hit
          /\ ~ret'.error
          /\ oracle'.sampled = 0 /\ oracle'.solved = 0
          /\ ~oracle'.wrote
          /\ cache_file' = cache_file
          /\ Len(type_prob') = Len(persisted)
          /\ TableEntries(type_prob') = TableEntries(persisted)]_vars

\* a table with two different probabilities, one of them fractional, was
\* read back from the file
C15_Witness ==
    /\ variant = "stochastic_oracle"
    /\ oracle.pc = "ready" /\ oracle.hit /\ cache_file.exists
    /\ \E e \in TableEntries(type_prob) : e[3] % sample_num # 0
    /\ \E e, f \in TableEntries(type_prob) : e[3] # f[3]

RECURSIVE SumProb(_)
SumProb(d) == IF d = <<>> THEN 0 ELSE Head(d).p + SumProb(Tail(d))

\* C16: in the table optimal_matching_prob builds with a solver returning a
\* valid matching per realization, the probabilities of every online vertex
\* summed over the offline vertices are at most 1.
C16_RowSumAtMostOne ==
    (variant = "stochastic_oracle" /\ oracle.pc = "ready") =>
        \A t \in 1..Len(type_prob) : SumProb(type_prob[t]) <= sample_num

\* offline vertex a is a neighbour of arrival t in the engine of environment.py
BipartiteAdjacent(a, t) == a \in Range(PyAt(graph.edges, t))

\* C21: in BipartiteMatchingGymEnvironment a step returns reward 1 and sets
\* the matched entry of a only when a is adjacent to online_type and not yet
\* matched; a non-adjacent or already-matched a returns reward 0 and leaves
\* the matched vector unchanged.
C21_BipartiteMatchesNeighbours ==
    [][(variant = "bipartite" /\ ret'.op = "step" /\ ~ret'.error
        /\ ret'.action \in 0..(graph.offline - 1)) =>
          IF BipartiteAdjacent(ret'.action, online_type)
             /\ PyAt(matched_offline_list, ret'.action) = 0
          THEN /\ ret'.reward = 1
               /\ matched_offline_list' =
                      [matched_offline_list EXCEPT ![ret'.action + 1] = 1]
          ELSE /\ ret'.reward = 0
               /\ matched_offline_list' = matched_offline_list]_vars

\* C22 as stated: after k steps rl_matching has k entries, earlier entries
\* never change, and the entry a step appends is `action` when the step
\* matched (reward 1) and -1 otherwise.
C22_RecordsAction ==
    [][(variant \in MatchVariants /\ ret'.op = "step" /\ ~ret'.error) =>
          /\ Len(rl_matching') = graph.time_horizon - time_remaining'
          /\ rl_matching' = Append(rl_matching,
                                   IF ret'.reward = 1 THEN ret'.action ELSE 0 - 1)]_vars

\* C22 amended: after k steps that returned rl_matching has k entries, earlier
\* entries never change, and the entry a step appends is action + online, the
\* number of the offline vertex in the edge lists, when the step matched
\* (reward 1) and -1 otherwise.
C22_RecordsOfflineId ==
    [][(variant \in MatchVariants /\ ret'.op = "step" /\ ~ret'.error) =>
          /\ Len(rl_matching') = graph.time_horizon - time_remaining'
          /\ rl_matching' = Append(rl_matching,
                                   IF ret'.reward = 1 THEN ret'.action + graph.online
                                   ELSE 0 - 1)]_vars

\* a refused choice and then a match are on record
C22_Witness ==
    /\ variant \in MatchVariants /\ Returned /\ ret.reward = 1
    /\ Len(rl_matching) = 2
    /\ rl_matching[1] = 0 - 1
    /\ rl_matching[2] = ret.action + graph.online

\* the arrivals presented so far in the episode of the permutation engine
Presented == Horizon - time_remaining + (IF time_remaining = 0 THEN 0 ELSE 1)

\* C23: in the permutation engine the arrivals presented at reset and after
\* each non-terminal step are pairwise distinct online vertices, the current
\* one being the last of them, and when the terminal step returns
\* online_type_list is a permutation of 0..online-1.
C23_ArrivalsArePermutation ==
    (variant = "permutation_mask" /\ ret.op \in {"reset", "step"}) =>
        /\ Len(online_type_list) = Presented
        /\ online_type = online_type_list[Len(online_type_list)]
        /\ \A i \in DOMAIN online_type_list :
               /\ online_type_list[i] \in 0..(graph.online - 1)
               /\ online_type_list[i] = PyAt(online_vertex_arrival_order, i - 1)
               /\ \A j \in DOMAIN online_type_list :
                      online_type_list[i] = online_type_list[j] => i = j
        /\ (Returned /\ ret.done) =>
               /\ Len(online_type_list) = graph.online
               /\ Range(online_type_list) = 0..(graph.online - 1)

\* the terminal step of a permutation episode whose order is not the
\* identity has returned
C23_Witness ==
    /\ variant = "permutation_mask" /\ Returned /\ ret.done
    /\ Len(online_type_list) = graph.online
    /\ online_type_list[1] # 0

\* C24: a stochastic engine constructed with the option arrival_rate never
\* presents, at reset or after a step, an online vertex whose configured rate
\* is 0.
C24_ZeroRateNeverArrives ==
    (/\ variant = "stochastic"
     /\ env_config.arrival_rate # <<>>
     /\ ret.op \in {"reset", "step"}
     /\ ~ret.error) =>
        PyAt(env_config.arrival_rate, online_type) > 0

\* C25: a file-backed engine constructed with the option time_horizon = H has
\* time_remaining = H after reset and returns terminal first at the H-th
\* step, whatever the number of vertices of the graph file.
C25_ConfiguredHorizon ==
    (FileBacked /\ ret.op \in {"reset", "step"} /\ ~ret.error) =>
        /\ ret.op = "reset" => time_remaining = env_config.time_horizon
        /\ ret.op = "step" =>
               (ret.done <=> Len(rl_matching) = env_config.time_horizon)

\* C26: in the permutation, stochastic and upper-triangle engines the step
\* that returns terminal = true draws no further arrival, online_type keeping
\* its value, and returns no observation.
C26_TerminalStepDrawsNothing ==
    [][(variant \in MatchVariants /\ ret'.op = "step" /\ ~ret'.error /\ ret'.done) =>
          /\ online_type' = online_type
          /\ ret'.obs = "none"]_vars

KeyCount(map, l, key) ==
    IF l \in DOMAIN map /\ KeyIndex(map[l], key) # 0
    THEN map[l][KeyIndex(map[l], key)].n
    ELSE 0

RECURSIVE SumParts(_)
SumParts(key) == IF key = <<>> THEN 0 ELSE Head(key) + SumParts(Tail(key))

Occurrences(key, v) == Cardinality({i \in DOMAIN key : key[i] = v})

\* key lists the sizes of k and s, in the order list.sort() gives their strings
IsSortedJoin(key, k, s) ==
    /\ Len(key) = Len(k) + 1
    /\ \A i \in 1..(Len(key) - 1) : StrLeq(key[i], key[i + 1])
    /\ \A v \in Range(key) \cup Range(k) \cup {s} :
           Occurrences(key, v) = Occurrences(k, v) + (IF v = s THEN 1 ELSE 0)

\* every key of the map lists sizes of item_sizes that sum to its level, and
\* every count is at least 1
KeysWellFormed(map) ==
    \A l \in DOMAIN map :
       \A i \in DOMAIN map[l] :
          /\ map[l][i].n >= 1
          /\ map[l][i].key # <<>>
          /\ Range(map[l][i].key) \subseteq Range(item_sizes)
          /\ SumParts(map[l][i].key) = l

\* C28: in every state reachable with in-range actions each key of
\* bin_type_distribution_map at level l lists sizes of item_sizes whose sum is
\* l and each stored count is at least 1; the key a step adds a bin to is the
\* key of a new bin holding the item, or the sorted join of the item and of
\* the key k that lost a bin, at the level of k plus the item.
C28_KeysDescribeBins ==
    [][/\ KeysWellFormed(bin_type_distribution_map')
       /\ ret'.op = "step" =>
             \A l \in DOMAIN bin_type_distribution_map' :
                \A i \in DOMAIN bin_type_distribution_map'[l] :
                   LET key == bin_type_distribution_map'[l][i].key
                   IN KeyCount(bin_type_distribution_map', l, key)
                         > KeyCount(bin_type_distribution_map, l, key) =>
                        \/ /\ key = <<item_size>>
                           /\ l = item_size
                           /\ \A t \in DOMAIN bin_type_distribution_map :
                                 \A j \in DOMAIN bin_type_distribution_map[t] :
                                    KeyCount(bin_type_distribution_map', t,
                                             bin_type_distribution_map[t][j].key)
                                       >= bin_type_distribution_map[t][j].n
                        \/ \E t \in DOMAIN bin_type_distribution_map :
                              \E j \in DOMAIN bin_type_distribution_map[t] :
                                 LET k == bin_type_distribution_map[t][j].key
                                 IN /\ KeyCount(bin_type_distribution_map', t, k)
                                          = bin_type_distribution_map[t][j].n - 1
                                    /\ l = t + item_size
                                    /\ IsSortedJoin(key, k, item_size)]_vars

\* the only bin opened holds a 2 and then a 1: its key is "1 2" at level 3
C28_Witness ==
    /\ variant = "strict" /\ Returned /\ ret.action = 2
    /\ opened = 1 /\ num_full_bags = 0
    /\ 3 \in DOMAIN bin_type_distribution_map
    /\ bin_type_distribution_map[3] = <<[key |-> <<1, 2>>, n |-> 1]>>

\* C29: two objects of the bin-packing engine started from the same state of
\* the random stream and given in-range actions, the same or not, are
\* presented the same item_size at every step index, as long as neither has
\* returned terminal.
C29_ItemsIndependentOfActions ==
    (/\ variant = "strict"
     /\ twin.levels # <<>>
     /\ ret.op \in {"reset", "step"}
     /\ ~ret.error /\ ~ret.done
     /\ ~twin.error /\ ~twin.done) =>
        item_size = twin.item

====
